---- MODULE Spec2Model ----
(***************************************************************************)
(* A model of ts-result (src/src/result.ts): the two variant classes       *)
(* OkImpl and ErrImpl, the factories Ok and Err, UnwrapError and           *)
(* formatValue.                                                            *)
(*                                                                         *)
(* Result objects live in a heap (a sequence; an object's identity is its  *)
(* index), so that "a new object" and "the very same object" can be told   *)
(* apart.  Every method call is one action; `last` records the call that   *)
(* was just made: its receiver, arguments, the callbacks it invoked, and   *)
(* whether it returned or threw.  `pending` is the catchesAsync call whose  *)
(* promise has been handed out and not yet consumed.                       *)
(***************************************************************************)
EXTENDS FiniteSets, Integers, Sequences, TLC

VARIABLES
    heap,   \* the Result objects constructed so far, by identity
    last,   \* the most recent call and its outcome
    pending, \* the catchesAsync call in flight, if any
    run     \* a caller's program: its statements, its position, what each gave

vars == <<heap, last, pending, run>>

\* The number of Result objects a behaviour may construct.
MaxObjs == 3

(***************************************************************************)
(* JavaScript values.  t is the value's kind as formatValue tells kinds    *)
(* apart; s carries a string, n a number, or the heap index of a Result.   *)
(***************************************************************************)
Str(s) == [t |-> "string", s |-> s, n |-> 0]
Num(n) == [t |-> "number", s |-> "", n |-> n]
NaN == [t |-> "number", s |-> "NaN", n |-> 0]
Bool(b) == [t |-> "boolean", s |-> IF b THEN "true" ELSE "false", n |-> 0]
Null == [t |-> "null", s |-> "", n |-> 0]
Undefined == [t |-> "undefined", s |-> "", n |-> 0]
\* A reference to the Result object heap[i].
Ref(i) == [t |-> "object", s |-> "Result", n |-> i]
\* A plain object { code: n }, as in the tests' Err({ code: 500 }).
PlainObj(n) == [t |-> "object", s |-> "plain", n |-> n]

\* An array [n], an object that refers to itself, a function, a symbol, a bigint.
ArrayOf(n) == [t |-> "object", s |-> "array", n |-> n]
Cyclic == [t |-> "object", s |-> "cyclic", n |-> 0]
Function == [t |-> "function", s |-> "", n |-> 0]
SymbolValue == [t |-> "symbol", s |-> "Symbol(s)", n |-> 0]
BigInt(n) == [t |-> "bigint", s |-> "", n |-> n]

\* An exception object of the caller's: new Error(...), by identity.
Exception(i) == [t |-> "object", s |-> "Error", n |-> i]
\* The promise an async function hands back.
PromiseValue == [t |-> "object", s |-> "Promise", n |-> 0]

IsRef(v) == v.t = "object" /\ v.s = "Result"

\* new OkImpl(value), new ErrImpl(error): the object the constructor builds.
OkImpl(value) == [_tag |-> "Ok", value |-> value]
ErrImpl(error) == [_tag |-> "Err", error |-> error]

\* The payload of an object, whichever field holds it.
PayloadOf(obj) == IF obj._tag = "Ok" THEN obj.value ELSE obj.error

(***************************************************************************)
(* Number::toString for the integers the model uses.                       *)
(***************************************************************************)
DigitChar(d) == <<"0", "1", "2", "3", "4", "5", "6", "7", "8", "9">>[d + 1]

RECURSIVE NatToString(_)
NatToString(n) ==
    IF n < 10 THEN DigitChar(n)
    ELSE NatToString(n \div 10) \o DigitChar(n % 10)

NumberToString(n) == IF n < 0 THEN "-" \o NatToString(-n) ELSE NatToString(n)

\* String(value) for the kinds formatValue hands to it.
String(value) ==
    CASE value.t = "number" ->
            IF value.s = "NaN" THEN "NaN" ELSE NumberToString(value.n)
      [] value.t = "boolean" -> value.s
      [] value.t = "null" -> "null"
      [] value.t = "undefined" -> "undefined"
      [] OTHER -> value.s

\* indent levels of JSON.stringify(value, null, 2)
RECURSIVE Spaces(_)
Spaces(k) == IF k = 0 THEN "" ELSE "  " \o Spaces(k - 1)

(***************************************************************************)
(* JSON.stringify(value, null, 2) at nesting depth k.  The answer is       *)
(* [threw, v]: v is Str(text), or Undefined where JSON.stringify gives     *)
(* undefined (undefined, a function, a symbol); a bigint and a cyclic      *)
(* object make it throw a TypeError.                                       *)
(***************************************************************************)
RECURSIVE JSONstringify(_, _, _)
JSONstringify(h, value, k) ==
    CASE value.t = "string" -> [threw |-> FALSE, v |-> Str("\"" \o value.s \o "\"")]
      [] value = NaN -> [threw |-> FALSE, v |-> Str("null")]
      [] value.t \in {"number", "boolean", "null"} ->
            [threw |-> FALSE, v |-> Str(String(value))]
      [] value.t \in {"undefined", "function", "symbol"} ->
            [threw |-> FALSE, v |-> Undefined]
      [] value.t = "bigint" -> [threw |-> TRUE, v |-> Undefined]
      [] value.t = "object" /\ value.s = "cyclic" -> [threw |-> TRUE, v |-> Undefined]
      [] value.t = "object" /\ value.s = "array" ->
            [threw |-> FALSE,
             v |-> Str("[\n" \o Spaces(k + 1) \o NumberToString(value.n)
                       \o "\n" \o Spaces(k) \o "]")]
      [] value.t = "object" /\ value.s = "Error" ->
            \* an Error has no enumerable property of its own
            [threw |-> FALSE, v |-> Str("{}")]
      [] value.t = "object" /\ value.s = "plain" ->
            [threw |-> FALSE,
             v |-> Str("{\n" \o Spaces(k + 1) \o "\"code\": " \o NumberToString(value.n)
                       \o "\n" \o Spaces(k) \o "}")]
      [] OTHER ->
            \* a Result object: its own fields _tag, then value or error
            LET obj == h[value.n]
                inner == JSONstringify(h, PayloadOf(obj), k + 1)
                key == IF obj._tag = "Ok" THEN "value" ELSE "error"
                head == "{\n" \o Spaces(k + 1) \o "\"_tag\": \"" \o obj._tag \o "\""
            IN  IF inner.threw THEN inner
                ELSE IF inner.v.t = "undefined"
                THEN [threw |-> FALSE, v |-> Str(head \o "\n" \o Spaces(k) \o "}")]
                ELSE [threw |-> FALSE,
                      v |-> Str(head \o ",\n" \o Spaces(k + 1) \o "\"" \o key \o "\": "
                                \o inner.v.s \o "\n" \o Spaces(k) \o "}")]

\* Object.prototype.toString.call(value)
ObjectToString(value) ==
    IF value.t = "bigint" THEN "[object BigInt]" ELSE "[object Object]"

\* a slip: strings rendered like every other primitive, without the quotes
formatValue_unquoted(h, value) ==
    IF value.t \in {"string", "number", "boolean", "null", "undefined"}
    THEN Str(String(value))
    ELSE LET j == JSONstringify(h, value, 0)
         IN  IF j.threw THEN Str(ObjectToString(value)) ELSE j.v

\* formatValue(value): a JavaScript value (declared string).
formatValue(h, value) ==
    IF value.t = "string" THEN Str("\"" \o value.s \o "\"")
    ELSE IF value.t \in {"number", "boolean", "null", "undefined"}
    THEN Str(String(value))
    ELSE LET j == JSONstringify(h, value, 0)
         IN  IF j.threw THEN Str(ObjectToString(value)) ELSE j.v

\* `${x}` in a template literal: ToString of a JavaScript value.
TemplateText(x) == IF x.t = "string" THEN x.s ELSE String(x)

(***************************************************************************)
(* What a call throws.  UnwrapError extends Error and sets name and        *)
(* causeValue; ErrorX is an exception of the caller's own, thrown by a     *)
(* callback.                                                               *)
(***************************************************************************)
\* a slip: the constructor never stores causeValue
UnwrapError_causeLost(message, causeValue) ==
    [cls |-> "UnwrapError", extends |-> "Error", name |-> "UnwrapError",
     message |-> message, causeValue |-> Undefined]

UnwrapError(message, causeValue) ==
    [cls |-> "UnwrapError", extends |-> "Error", name |-> "UnwrapError",
     message |-> message, causeValue |-> causeValue]

ErrorX ==
    [cls |-> "Error", extends |-> "Object", name |-> "Error",
     message |-> "X", causeValue |-> Undefined]

NoThrow ==
    [cls |-> "", extends |-> "", name |-> "", message |-> "", causeValue |-> Undefined]

(***************************************************************************)
(* Caller-supplied functions.  A function is [name, k]; k is the heap      *)
(* index a closure has captured ("ret": () => thatResult), else 0.         *)
(***************************************************************************)
Fn(name) == [name |-> name, k |-> 0]
FnRet(k) == [name |-> "ret", k |-> k]
NoFn == Fn("")
\* x => g(f(x))
Compose(g, f) == [name |-> "compose", k |-> 0, f |-> f, g |-> g]
\* x => f(x).andThen(g)
ThenCompose(f, g) == [name |-> "thenCompose", k |-> 0, f |-> f, g |-> g]

\* x * 2: ToNumber(x) doubled
Double(x) ==
    CASE x.t = "number" -> IF x = NaN THEN NaN ELSE Num(2 * x.n)
      [] x.t = "boolean" -> IF x.s = "true" THEN Num(2) ELSE Num(0)
      [] x.t = "null" -> Num(0)
      [] x.t = "string" /\ x.s = "" -> Num(0)
      [] OTHER -> NaN

\* `Value: ${x}`
Label(x) ==
    Str("Value: " \o (IF x.t = "string" THEN x.s
                      ELSE IF x.t = "object" THEN "[object Object]"
                      ELSE String(x)))

\* n > 0, as checkPositive of the README tests it
IsPositive(x) ==
    \/ x.t = "number" /\ x # NaN /\ x.n > 0
    \/ x.t = "boolean" /\ x.s = "true"

(***************************************************************************)
(* fn(x), invoked from parameter `slot` of a method.  The answer is the    *)
(* heap after the call (a callback may construct Results), whether it      *)
(* threw, the value it returned, and `call`, the record of the invocation. *)
(* A closure that itself calls functions keeps their invocations, in       *)
(* order, in call.inner.                                                   *)
(***************************************************************************)
RECURSIVE CallFn(_, _, _, _)
RECURSIVE Result_andThen(_, _, _)
CallFn(h, slot, fn, x) ==
    LET done(h2, v) ==
            [heap |-> h2, threw |-> FALSE, v |-> v, thrown |-> NoThrow,
             call |-> [slot |-> slot, fn |-> fn, arg |-> x, threw |-> FALSE, ret |-> v]]
    IN  CASE fn.name = "id" -> done(h, x)
          [] fn.name = "double" -> done(h, Double(x))
          [] fn.name = "checkPositive" ->
                IF IsPositive(x)
                THEN done(Append(h, OkImpl(x)), Ref(Len(h) + 1))
                ELSE done(Append(h, ErrImpl(Str("Number is not positive"))),
                          Ref(Len(h) + 1))
          [] fn.name = "ret" -> done(h, Ref(fn.k))
          [] fn.name = "label" -> done(h, Label(x))
          [] fn.name = "fail" -> 
                done(Append(h, ErrImpl(Str("Cannot divide by zero"))), Ref(Len(h) + 1))
          [] fn.name = "compose" ->
                LET a == CallFn(h, slot, fn.f, x)
                    b == CallFn(a.heap, slot, fn.g, a.v)
                    r == IF a.threw THEN a ELSE b
                IN  [heap |-> r.heap, threw |-> r.threw, v |-> r.v, thrown |-> r.thrown,
                     call |-> [slot |-> slot, fn |-> fn, arg |-> x, threw |-> r.threw,
                               ret |-> r.v,
                               inner |-> IF a.threw THEN <<a.call>>
                                         ELSE <<a.call, b.call>>]]
          [] fn.name = "thenCompose" ->
                LET a == CallFn(h, slot, fn.f, x)
                    b == Result_andThen(a.heap, a.v.n, fn.g)
                IN  IF a.threw
                    THEN [heap |-> a.heap, threw |-> TRUE, v |-> Undefined,
                          thrown |-> a.thrown,
                          call |-> [slot |-> slot, fn |-> fn, arg |-> x, threw |-> TRUE,
                                    ret |-> Undefined, inner |-> <<a.call>>]]
                    ELSE [heap |-> b.heap, threw |-> b.outcome = "throw", v |-> b.ret,
                          thrown |-> b.thrown,
                          call |-> [slot |-> slot, fn |-> fn, arg |-> x,
                                    threw |-> b.outcome = "throw", ret |-> b.ret,
                                    inner |-> <<a.call>> \o b.calls]]
          [] OTHER ->
                \* "throwX": () => { throw X }
                [heap |-> h, threw |-> TRUE, v |-> Undefined, thrown |-> ErrorX,
                 call |-> [slot |-> slot, fn |-> fn, arg |-> x, threw |-> TRUE,
                           ret |-> Undefined]]

(***************************************************************************)
(* The outcome of a method call: the heap after it, "return" with the      *)
(* returned value or "throw" with the thrown error, and the callback       *)
(* invocations it made, in order.                                          *)
(***************************************************************************)
Return(h, ret, calls) ==
    [heap |-> h, outcome |-> "return", ret |-> ret, thrown |-> NoThrow, calls |-> calls]

Throw(h, thrown, calls) ==
    [heap |-> h, outcome |-> "throw", ret |-> Undefined, thrown |-> thrown,
     calls |-> calls]

\* return new OkImpl(v) / new ErrImpl(e)
ReturnNew(h, obj, calls) == Return(Append(h, obj), Ref(Len(h) + 1), calls)

\* return f(x): what the callback returns or throws is what the method does
ReturnCall(c) ==
    IF c.threw THEN Throw(c.heap, c.thrown, <<c.call>>)
    ELSE Return(c.heap, c.v, <<c.call>>)

(***************************************************************************)
(* class OkImpl                                                            *)
(***************************************************************************)
OkImpl_isOk(h, self) == Return(h, Bool(TRUE), <<>>)

OkImpl_isErr(h, self) == Return(h, Bool(FALSE), <<>>)

\* a slip: this.value overwritten and this returned
OkImpl_map_inPlace(h, self, mapper) ==
    LET c == CallFn(h, "mapper", mapper, h[self].value)
    IN  IF c.threw THEN Throw(c.heap, c.thrown, <<c.call>>)
        ELSE Return([c.heap EXCEPT ![self] = OkImpl(c.v)], Ref(self), <<c.call>>)

\* a slip: the mapper is called and its result dropped
OkImpl_map_resultDropped(h, self, mapper) ==
    LET c == CallFn(h, "mapper", mapper, h[self].value)
    IN  IF c.threw THEN Throw(c.heap, c.thrown, <<c.call>>)
        ELSE ReturnNew(c.heap, OkImpl(h[self].value), <<c.call>>)

\* a slip: the mapper run again on its own result
OkImpl_map_twice(h, self, mapper) ==
    LET c == CallFn(h, "mapper", mapper, h[self].value)
        d == CallFn(c.heap, "mapper", mapper, c.v)
    IN  IF c.threw THEN Throw(c.heap, c.thrown, <<c.call>>)
        ELSE IF d.threw THEN Throw(d.heap, d.thrown, <<c.call, d.call>>)
        ELSE ReturnNew(d.heap, OkImpl(d.v), <<c.call, d.call>>)

\* a slip: a mapper's result that is itself a Result handed back unwrapped
OkImpl_map_flattening(h, self, mapper) ==
    LET c == CallFn(h, "mapper", mapper, h[self].value)
    IN  IF c.threw THEN Throw(c.heap, c.thrown, <<c.call>>)
        ELSE IF IsRef(c.v) THEN Return(c.heap, c.v, <<c.call>>)
        ELSE ReturnNew(c.heap, OkImpl(c.v), <<c.call>>)

OkImpl_map(h, self, mapper) ==
    LET c == CallFn(h, "mapper", mapper, h[self].value)
    IN  IF c.threw THEN Throw(c.heap, c.thrown, <<c.call>>)
        ELSE ReturnNew(c.heap, OkImpl(c.v), <<c.call>>)

\* a slip: the receiver re-wrapped where it should be handed back as it is
OkImpl_mapErr_rewrapped(h, self, mapper) == ReturnNew(h, OkImpl(h[self].value), <<>>)

OkImpl_mapErr(h, self, mapper) == Return(h, Ref(self), <<>>)

OkImpl_unwrap(h, self, msg) == Return(h, h[self].value, <<>>)

OkImpl_unwrapErr(h, self, msg) ==
    LET message ==
            IF msg.t \in {"undefined", "null"}
            THEN "Called unwrapErr on an Ok value: "
                     \o TemplateText(formatValue(h, h[self].value))
            ELSE msg.s
    IN  Throw(h, UnwrapError(message, h[self].value), <<>>)

\* a slip: unwrapOr given the body of unwrapErr
OkImpl_unwrapOr_throws(h, self, defaultValue) ==
    Throw(h, UnwrapError("Called unwrapErr on an Ok value: "
                             \o TemplateText(formatValue(h, h[self].value)),
                         h[self].value), <<>>)

OkImpl_unwrapOr(h, self, defaultValue) == Return(h, h[self].value, <<>>)

\* a slip: the fallback computed although a value is there
OkImpl_unwrapOrElse_eager(h, self, op) ==
    LET c == CallFn(h, "op", op, h[self].value)
    IN  IF c.threw THEN Throw(c.heap, c.thrown, <<c.call>>)
        ELSE Return(c.heap, h[self].value, <<c.call>>)

OkImpl_unwrapOrElse(h, self, op) == Return(h, h[self].value, <<>>)

\* a slip: andThen written as map, wrapping what op returns
OkImpl_andThen_wrapped(h, self, op) ==
    LET c == CallFn(h, "op", op, h[self].value)
    IN  IF c.threw THEN Throw(c.heap, c.thrown, <<c.call>>)
        ELSE ReturnNew(c.heap, OkImpl(c.v), <<c.call>>)

OkImpl_andThen(h, self, op) == ReturnCall(CallFn(h, "op", op, h[self].value))

\* a slip: orElse copied from ErrImpl, running the recovery on the value
OkImpl_orElse_copied(h, self, op) == ReturnCall(CallFn(h, "op", op, h[self].value))

OkImpl_orElse(h, self, op) == Return(h, Ref(self), <<>>)

\* a slip: what the handler throws reported as a misuse of the Result
OkImpl_match_wrapped(h, self, matcherOk, matcherErr) ==
    LET c == CallFn(h, "matcher.Ok", matcherOk, h[self].value)
    IN  IF c.threw
        THEN Throw(c.heap, UnwrapError(c.thrown.message, h[self].value), <<c.call>>)
        ELSE Return(c.heap, c.v, <<c.call>>)

OkImpl_match(h, self, matcherOk, matcherErr) ==
    ReturnCall(CallFn(h, "matcher.Ok", matcherOk, h[self].value))

OkImpl_and(h, self, res) == Return(h, res, <<>>)

OkImpl_or(h, self, res) == Return(h, Ref(self), <<>>)

\* a slip: mapOr copied from ErrImpl, answering with the default
OkImpl_mapOr_copied(h, self, defaultValue, mapper) == Return(h, defaultValue, <<>>)

OkImpl_mapOr(h, self, defaultValue, mapper) ==
    ReturnCall(CallFn(h, "mapper", mapper, h[self].value))

OkImpl_mapOrElse(h, self, defaultFn, mapper) ==
    ReturnCall(CallFn(h, "mapper", mapper, h[self].value))

(***************************************************************************)
(* class ErrImpl                                                           *)
(***************************************************************************)
\* a slip: isOk copied from OkImpl without flipping the answer
ErrImpl_isOk_copied(h, self) == Return(h, Bool(TRUE), <<>>)

ErrImpl_isOk(h, self) == Return(h, Bool(FALSE), <<>>)

ErrImpl_isErr(h, self) == Return(h, Bool(TRUE), <<>>)

\* a slip: the mapper applied to the error
ErrImpl_map_applied(h, self, mapper) ==
    LET c == CallFn(h, "mapper", mapper, h[self].error)
    IN  IF c.threw THEN Throw(c.heap, c.thrown, <<c.call>>)
        ELSE ReturnNew(c.heap, ErrImpl(c.v), <<c.call>>)

ErrImpl_map(h, self, mapper) == Return(h, Ref(self), <<>>)

\* a slip: the mapped error wrapped in the wrong class
ErrImpl_mapErr_wrongClass(h, self, mapper) ==
    LET c == CallFn(h, "mapper", mapper, h[self].error)
    IN  IF c.threw THEN Throw(c.heap, c.thrown, <<c.call>>)
        ELSE ReturnNew(c.heap, OkImpl(c.v), <<c.call>>)

ErrImpl_mapErr(h, self, mapper) ==
    LET c == CallFn(h, "mapper", mapper, h[self].error)
    IN  IF c.threw THEN Throw(c.heap, c.thrown, <<c.call>>)
        ELSE ReturnNew(c.heap, ErrImpl(c.v), <<c.call>>)

\* a slip: msg || default, which drops an empty message
ErrImpl_unwrap_falsyMsg(h, self, msg) ==
    LET message ==
            IF msg.t \in {"undefined", "null"} \/ msg = Str("")
            THEN "Called unwrap on an Err value: "
                     \o TemplateText(formatValue(h, h[self].error))
            ELSE msg.s
    IN  Throw(h, UnwrapError(message, h[self].error), <<>>)

\* a slip: the message carries a number that tells one instance from another
ErrImpl_unwrap_numbered(h, self, msg) ==
    Throw(h, UnwrapError("Called unwrap on an Err value #" \o NumberToString(self),
                         h[self].error), <<>>)

ErrImpl_unwrap(h, self, msg) ==
    LET message ==
            IF msg.t \in {"undefined", "null"}
            THEN "Called unwrap on an Err value: "
                     \o TemplateText(formatValue(h, h[self].error))
            ELSE msg.s
    IN  Throw(h, UnwrapError(message, h[self].error), <<>>)

\* a slip: unwrapErr copied from OkImpl, throwing when a message is given
ErrImpl_unwrapErr_copied(h, self, msg) ==
    IF msg.t \in {"undefined", "null"} THEN Return(h, h[self].error, <<>>)
    ELSE Throw(h, UnwrapError(msg.s, h[self].error), <<>>)

ErrImpl_unwrapErr(h, self, msg) == Return(h, h[self].error, <<>>)

\* a slip: unwrapOr handing back the error in place of the default
ErrImpl_unwrapOr_error(h, self, defaultValue) == Return(h, h[self].error, <<>>)

ErrImpl_unwrapOr(h, self, defaultValue) == Return(h, defaultValue, <<>>)

ErrImpl_unwrapOrElse(h, self, op) == ReturnCall(CallFn(h, "op", op, h[self].error))

\* a slip: andThen copied from OkImpl, running op on the error
ErrImpl_andThen_copied(h, self, op) == ReturnCall(CallFn(h, "op", op, h[self].error))

ErrImpl_andThen(h, self, op) == Return(h, Ref(self), <<>>)

\* a slip: orElse copied from OkImpl, never recovering
ErrImpl_orElse_copied(h, self, op) == Return(h, Ref(self), <<>>)

ErrImpl_orElse(h, self, op) == ReturnCall(CallFn(h, "op", op, h[self].error))

\* a slip: match copied from OkImpl, calling the Ok handler
ErrImpl_match_copied(h, self, matcherOk, matcherErr) ==
    ReturnCall(CallFn(h, "matcher.Ok", matcherOk, h[self].error))

ErrImpl_match(h, self, matcherOk, matcherErr) ==
    ReturnCall(CallFn(h, "matcher.Err", matcherErr, h[self].error))

\* a slip: and copied from OkImpl, handing back the argument
ErrImpl_and_copied(h, self, res) == Return(h, res, <<>>)

ErrImpl_and(h, self, res) == Return(h, Ref(self), <<>>)

\* a slip: or copied from OkImpl, keeping the receiver
ErrImpl_or_copied(h, self, res) == Return(h, Ref(self), <<>>)

ErrImpl_or(h, self, res) == Return(h, res, <<>>)

ErrImpl_mapOr(h, self, defaultValue, mapper) == Return(h, defaultValue, <<>>)

\* a slip: the two function parameters taken in the wrong order
ErrImpl_mapOrElse_swapped(h, self, defaultFn, mapper) ==
    ReturnCall(CallFn(h, "mapper", mapper, h[self].error))

ErrImpl_mapOrElse(h, self, defaultFn, mapper) ==
    ReturnCall(CallFn(h, "defaultFn", defaultFn, h[self].error))

(***************************************************************************)
(* The factories, and a method call on a Result: the receiver's class      *)
(* decides which implementation runs.                                      *)
(***************************************************************************)
Ok(h, value) == ReturnNew(h, OkImpl(value), <<>>)

Err(h, error) == ReturnNew(h, ErrImpl(error), <<>>)

(***************************************************************************)
(* The adapters catches and catchesAsync.  A zero-argument computation is  *)
(* [name, k, v]: it returns v, throws v, or (an async one) returns a       *)
(* promise that fulfils with v or rejects with v.                          *)
(***************************************************************************)
Returning(v) == [name |-> "returning", k |-> 0, v |-> v]
Throwing(x) == [name |-> "throwing", k |-> 0, v |-> x]
Resolving(v) == [name |-> "resolving", k |-> 0, v |-> v]
Rejecting(x) == [name |-> "rejecting", k |-> 0, v |-> x]

\* fn(): whether it threw, the value it returned or threw, and, where the value
\* is a promise, how that promise settles.
Invoke(fn) ==
    CASE fn.name = "throwing" ->
            [threw |-> TRUE, v |-> fn.v, rejected |-> FALSE, settled |-> Undefined]
      [] fn.name = "resolving" ->
            [threw |-> FALSE, v |-> PromiseValue, rejected |-> FALSE, settled |-> fn.v]
      [] fn.name = "rejecting" ->
            [threw |-> FALSE, v |-> PromiseValue, rejected |-> TRUE, settled |-> fn.v]
      [] OTHER ->
            \* "returning"; awaiting a value that is no promise gives the value
            [threw |-> FALSE, v |-> fn.v, rejected |-> FALSE, settled |-> fn.v]

\* a slip: the caught exception replaced by its text
catches_text(h, fn) ==
    LET c == Invoke(fn)
    IN  IF c.threw THEN Err(h, Str("Error")) ELSE Ok(h, c.v)

\* try { return Ok(fn()) } catch (error) { return Err(error) }
catches(h, fn) ==
    LET c == Invoke(fn)
    IN  IF c.threw THEN Err(h, c.v) ELSE Ok(h, c.v)

\* catchesAsync(fn) up to its await.  fn() runs at once; what it throws there is
\* caught at once and the promise handed back is already resolved.  Otherwise
\* the call waits for what fn() returned.
catchesAsync(h, fn) ==
    LET c == Invoke(fn)
        e == Err(h, c.v)
    IN  IF c.threw
        THEN [heap |-> e.heap, stage |-> "resolved", fn |-> fn, rejected |-> FALSE,
              settled |-> Undefined, result |-> e.ret]
        ELSE [heap |-> h, stage |-> "awaiting", fn |-> fn, rejected |-> c.rejected,
              settled |-> c.settled, result |-> Undefined]

\* catchesAsync from its await on: a rejection is thrown at the await and
\* caught, a fulfilment is wrapped by Ok.  The promise of catchesAsync
\* resolves with the Result either way.
catchesAsync_resume(h, p) ==
    LET e == IF p.rejected THEN Err(h, p.settled) ELSE Ok(h, p.settled)
    IN  [heap |-> e.heap, stage |-> "resolved", fn |-> p.fn, rejected |-> p.rejected,
         settled |-> p.settled, result |-> e.ret]

IsOkImpl(h, self) == h[self]._tag = "Ok"

Result_isOk(h, self) ==
    IF IsOkImpl(h, self) THEN OkImpl_isOk(h, self) ELSE ErrImpl_isOk(h, self)

Result_isErr(h, self) ==
    IF IsOkImpl(h, self) THEN OkImpl_isErr(h, self) ELSE ErrImpl_isErr(h, self)

Result_map(h, self, mapper) ==
    IF IsOkImpl(h, self) THEN OkImpl_map(h, self, mapper)
    ELSE ErrImpl_map(h, self, mapper)

Result_mapErr(h, self, mapper) ==
    IF IsOkImpl(h, self) THEN OkImpl_mapErr(h, self, mapper)
    ELSE ErrImpl_mapErr(h, self, mapper)

Result_unwrap(h, self, msg) ==
    IF IsOkImpl(h, self) THEN OkImpl_unwrap(h, self, msg)
    ELSE ErrImpl_unwrap(h, self, msg)

Result_unwrapErr(h, self, msg) ==
    IF IsOkImpl(h, self) THEN OkImpl_unwrapErr(h, self, msg)
    ELSE ErrImpl_unwrapErr(h, self, msg)

Result_unwrapOr(h, self, defaultValue) ==
    IF IsOkImpl(h, self) THEN OkImpl_unwrapOr(h, self, defaultValue)
    ELSE ErrImpl_unwrapOr(h, self, defaultValue)

Result_unwrapOrElse(h, self, op) ==
    IF IsOkImpl(h, self) THEN OkImpl_unwrapOrElse(h, self, op)
    ELSE ErrImpl_unwrapOrElse(h, self, op)

Result_andThen(h, self, op) ==
    IF IsOkImpl(h, self) THEN OkImpl_andThen(h, self, op)
    ELSE ErrImpl_andThen(h, self, op)

Result_orElse(h, self, op) ==
    IF IsOkImpl(h, self) THEN OkImpl_orElse(h, self, op)
    ELSE ErrImpl_orElse(h, self, op)

Result_match(h, self, matcherOk, matcherErr) ==
    IF IsOkImpl(h, self) THEN OkImpl_match(h, self, matcherOk, matcherErr)
    ELSE ErrImpl_match(h, self, matcherOk, matcherErr)

Result_and(h, self, res) ==
    IF IsOkImpl(h, self) THEN OkImpl_and(h, self, res) ELSE ErrImpl_and(h, self, res)

Result_or(h, self, res) ==
    IF IsOkImpl(h, self) THEN OkImpl_or(h, self, res) ELSE ErrImpl_or(h, self, res)

Result_mapOr(h, self, defaultValue, mapper) ==
    IF IsOkImpl(h, self) THEN OkImpl_mapOr(h, self, defaultValue, mapper)
    ELSE ErrImpl_mapOr(h, self, defaultValue, mapper)

Result_mapOrElse(h, self, defaultFn, mapper) ==
    IF IsOkImpl(h, self) THEN OkImpl_mapOrElse(h, self, defaultFn, mapper)
    ELSE ErrImpl_mapOrElse(h, self, defaultFn, mapper)

\* r[op](...): the method `op` of the Result heap[self], called with the
\* arguments that method takes (fn is the mapper, op or Ok handler; fn2 the
\* Err handler or the fallback function).
Result_call(h, op, self, fn, fn2, arg) ==
    CASE op = "isOk" -> Result_isOk(h, self)
      [] op = "isErr" -> Result_isErr(h, self)
      [] op = "map" -> Result_map(h, self, fn)
      [] op = "mapErr" -> Result_mapErr(h, self, fn)
      [] op = "unwrap" -> Result_unwrap(h, self, arg)
      [] op = "unwrapErr" -> Result_unwrapErr(h, self, arg)
      [] op = "unwrapOr" -> Result_unwrapOr(h, self, arg)
      [] op = "unwrapOrElse" -> Result_unwrapOrElse(h, self, fn)
      [] op = "andThen" -> Result_andThen(h, self, fn)
      [] op = "orElse" -> Result_orElse(h, self, fn)
      [] op = "match" -> Result_match(h, self, fn, fn2)
      [] op = "and" -> Result_and(h, self, arg)
      [] op = "or" -> Result_or(h, self, arg)
      [] op = "mapOr" -> Result_mapOr(h, self, arg, fn)
      [] OTHER -> Result_mapOrElse(h, self, fn2, fn)

(***************************************************************************)
(* The callers: what they construct and pass.                              *)
(***************************************************************************)
Refs == {Ref(i) : i \in DOMAIN heap}

\* payloads handed to Ok() and Err()
Payloads == {Str("boom"), Num(123)} \cup Refs

\* functions returning a plain value
Mappers == {Fn("id"), Fn("double"), Fn("throwX")}

\* the two handlers of match, and (defaultFn, mapper) of mapOrElse
HandlerPairs ==
    {<<Fn("id"), Fn("double")>>, <<Fn("double"), Fn("id")>>,
     <<Fn("throwX"), Fn("id")>>, <<Fn("double"), Fn("throwX")>>}

\* functions returning a Result
Ops == {Fn("checkPositive"), Fn("throwX")} \cup {FnRet(i) : i \in DOMAIN heap}

\* the optional msg of unwrap and unwrapErr; Undefined when it is left out
Msgs == {Undefined, Str("Custom message"), Str("")}

\* default values handed to unwrapOr and mapOr
Defaults == {Num(0)}

\* what a wrapped computation returns, and what it throws
Returned_values == {Num(123), Exception(1)}
Thrown_values == {Exception(1), Exception(2)}

\* computations handed to catches
SyncThunks ==
    {Returning(v) : v \in Returned_values} \cup {Throwing(x) : x \in Thrown_values}

\* computations handed to catchesAsync
AsyncThunks ==
    SyncThunks \cup {Resolving(v) : v \in Returned_values}
               \cup {Rejecting(x) : x \in Thrown_values}

\* The largest number among the values handed to formatValue.
MaxNum == 12

\* values of every kind formatValue tells apart
FormatInputs ==
    {Str(""), Str("boom"), Str("a b"), NaN, Bool(TRUE), Bool(FALSE), Null, Undefined,
     Cyclic, Function, SymbolValue, Exception(1)}
        \cup {Num(n) : n \in -MaxNum..MaxNum}
        \cup {PlainObj(n) : n \in 0..MaxNum}
        \cup {ArrayOf(n) : n \in 0..MaxNum}
        \cup {BigInt(n) : n \in 0..MaxNum}

\* No program of the scripted kind is running.
NoRun == [law |-> "none", script |-> <<>>, pc |-> 0, results |-> <<>>]

\* No catchesAsync call is in flight.
NoPending ==
    [stage |-> "none", fn |-> NoFn, rejected |-> FALSE, settled |-> Undefined,
     result |-> Undefined]

\* The receiver of a call that has none (a factory call).
NoObj == [_tag |-> "none", value |-> Undefined]

\* No call is in view: the caller is between two statements.
Idle ==
    [op |-> "idle", self |-> 0, recv |-> NoObj, fn |-> NoFn, fn2 |-> NoFn,
     arg |-> Undefined, pre |-> 0, outcome |-> "return", ret |-> Undefined, thrown |-> NoThrow,
     calls |-> <<>>]

Init ==
    /\ heap = <<>>
    /\ last = Idle
    /\ pending = NoPending
    /\ run = NoRun

\* The call op(self; fn, fn2, arg) has run with outcome e.  last keeps the call:
\* recv is the receiver as it was when the call began, pre the number of objects
\* then (an object with a larger index was constructed by the call).
Commit(op, self, fn, fn2, arg, effect) ==
    LET e == effect
    IN  /\ Len(e.heap) <= MaxObjs
        /\ heap' = e.heap
        /\ last' = [op |-> op, self |-> self,
                    recv |-> IF self = 0 THEN NoObj ELSE heap[self],
                    fn |-> fn, fn2 |-> fn2, arg |-> arg, pre |-> Len(heap), outcome |-> e.outcome, ret |-> e.ret,
                    thrown |-> e.thrown, calls |-> e.calls]
        /\ UNCHANGED <<pending, run>>

Call_Ok ==
    /\ last = Idle
    /\ \E value \in Payloads : Commit("Ok", 0, NoFn, NoFn, value, Ok(heap, value))

Call_Err ==
    /\ last = Idle
    /\ \E error \in Payloads : Commit("Err", 0, NoFn, NoFn, error, Err(heap, error))

Call_isOk ==
    /\ last = Idle
    /\ \E self \in DOMAIN heap :
           Commit("isOk", self, NoFn, NoFn, Undefined, Result_isOk(heap, self))

Call_isErr ==
    /\ last = Idle
    /\ \E self \in DOMAIN heap :
           Commit("isErr", self, NoFn, NoFn, Undefined, Result_isErr(heap, self))

Call_map ==
    /\ last = Idle
    /\ \E self \in DOMAIN heap, mapper \in Mappers :
           Commit("map", self, mapper, NoFn, Undefined, Result_map(heap, self, mapper))

Call_mapErr ==
    /\ last = Idle
    /\ \E self \in DOMAIN heap, mapper \in Mappers :
           Commit("mapErr", self, mapper, NoFn, Undefined, Result_mapErr(heap, self, mapper))

Call_unwrap ==
    /\ last = Idle
    /\ \E self \in DOMAIN heap, msg \in Msgs :
           Commit("unwrap", self, NoFn, NoFn, msg, Result_unwrap(heap, self, msg))

Call_unwrapErr ==
    /\ last = Idle
    /\ \E self \in DOMAIN heap, msg \in Msgs :
           Commit("unwrapErr", self, NoFn, NoFn, msg, Result_unwrapErr(heap, self, msg))

Call_unwrapOr ==
    /\ last = Idle
    /\ \E self \in DOMAIN heap, defaultValue \in Defaults :
           Commit("unwrapOr", self, NoFn, NoFn, defaultValue,
                  Result_unwrapOr(heap, self, defaultValue))

Call_unwrapOrElse ==
    /\ last = Idle
    /\ \E self \in DOMAIN heap, op \in Mappers :
           Commit("unwrapOrElse", self, op, NoFn, Undefined,
                  Result_unwrapOrElse(heap, self, op))

Call_andThen ==
    /\ last = Idle
    /\ \E self \in DOMAIN heap, op \in Ops :
           Commit("andThen", self, op, NoFn, Undefined, Result_andThen(heap, self, op))

Call_orElse ==
    /\ last = Idle
    /\ \E self \in DOMAIN heap, op \in Ops :
           Commit("orElse", self, op, NoFn, Undefined, Result_orElse(heap, self, op))

Call_match ==
    /\ last = Idle
    /\ \E self \in DOMAIN heap, matcher \in HandlerPairs :
           Commit("match", self, matcher[1], matcher[2], Undefined,
                  Result_match(heap, self, matcher[1], matcher[2]))

Call_and ==
    /\ last = Idle
    /\ \E self \in DOMAIN heap, res \in Refs :
           Commit("and", self, NoFn, NoFn, res, Result_and(heap, self, res))

Call_or ==
    /\ last = Idle
    /\ \E self \in DOMAIN heap, res \in Refs :
           Commit("or", self, NoFn, NoFn, res, Result_or(heap, self, res))

Call_mapOr ==
    /\ last = Idle
    /\ \E self \in DOMAIN heap, defaultValue \in Defaults, mapper \in Mappers :
           Commit("mapOr", self, mapper, NoFn, defaultValue,
                  Result_mapOr(heap, self, defaultValue, mapper))

Call_mapOrElse ==
    /\ last = Idle
    /\ \E self \in DOMAIN heap, fns \in HandlerPairs :
           Commit("mapOrElse", self, fns[2], fns[1], Undefined,
                  Result_mapOrElse(heap, self, fns[1], fns[2]))

\* The caller's statement ends: it has looked at the outcome and moves on.
\* The objects stay.
Discard ==
    /\ last # Idle
    /\ last' = Idle
    /\ UNCHANGED <<heap, pending, run>>

Next ==
    \/ Call_Ok
    \/ Call_Err
    \/ Call_isOk
    \/ Call_isErr
    \/ Call_map
    \/ Call_mapErr
    \/ Call_unwrap
    \/ Call_unwrapErr
    \/ Call_unwrapOr
    \/ Call_unwrapOrElse
    \/ Call_andThen
    \/ Call_orElse
    \/ Call_match
    \/ Call_and
    \/ Call_or
    \/ Call_mapOr
    \/ Call_mapOrElse
    \/ Discard

Spec == Init /\ [][Next]_vars

(***************************************************************************)
(* The adapters in use: Results are made by the factories and by catches   *)
(* and catchesAsync.  One catchesAsync call is in flight at a time; its    *)
(* continuation runs, as every promise reaction does, when no call is on   *)
(* the stack.                                                              *)
(***************************************************************************)
Call_catches ==
    /\ last = Idle
    /\ \E fn \in SyncThunks :
           Commit("catches", 0, fn, NoFn, Undefined, catches(heap, fn))

\* catchesAsync(fn) is called and hands back its promise.
Call_catchesAsync ==
    /\ last = Idle
    /\ pending = NoPending
    /\ \E fn \in AsyncThunks :
           LET p == catchesAsync(heap, fn)
           IN  /\ Len(p.heap) <= MaxObjs
               /\ heap' = p.heap
               /\ pending' = [stage |-> p.stage, fn |-> p.fn, rejected |-> p.rejected,
                              settled |-> p.settled, result |-> p.result]
               /\ last' = [Idle EXCEPT !.op = "catchesAsync", !.fn = fn,
                                       !.pre = Len(heap), !.ret = PromiseValue]
               /\ UNCHANGED run

\* The awaited promise has settled and catchesAsync runs to its end.
Resume_catchesAsync ==
    /\ last = Idle
    /\ pending.stage = "awaiting"
    /\ LET p == catchesAsync_resume(heap, pending)
       IN  /\ Len(p.heap) <= MaxObjs
           /\ heap' = p.heap
           /\ pending' = [stage |-> p.stage, fn |-> p.fn, rejected |-> p.rejected,
                          settled |-> p.settled, result |-> p.result]
    /\ UNCHANGED <<last, run>>

\* The caller's `await catchesAsync(fn)` receives the Result.
Await_catchesAsync ==
    /\ last = Idle
    /\ pending.stage = "resolved"
    /\ last' = [Idle EXCEPT !.op = "await", !.fn = pending.fn,
                            !.pre = Len(heap), !.ret = pending.result]
    /\ pending' = NoPending
    /\ UNCHANGED <<heap, run>>

NextCatches ==
    \/ Call_Ok
    \/ Call_Err
    \/ Call_catches
    \/ Call_catchesAsync
    \/ Resume_catchesAsync
    \/ Await_catchesAsync
    \/ Discard

SpecCatches == Init /\ [][NextCatches]_vars

(***************************************************************************)
(* formatValue on its own: a value is at hand, and formatValue is applied  *)
(* to it.                                                                  *)
(***************************************************************************)
InitFormat ==
    /\ heap = <<>>
    /\ pending = NoPending
    /\ run = NoRun
    /\ last \in {[Idle EXCEPT !.op = "value", !.arg = value] : value \in FormatInputs}

Call_formatValue ==
    /\ last.op = "value"
    /\ last' = [last EXCEPT !.op = "formatValue", !.ret = formatValue(heap, last.arg)]
    /\ UNCHANGED <<heap, pending, run>>

NextFormat == Call_formatValue

SpecFormat == InitFormat /\ [][NextFormat]_vars

(***************************************************************************)
(* A caller's program.  A statement xk = Ok(arg), xk = Err(arg) or          *)
(* xk = xi.op(...) names earlier statements by their number: recv is the    *)
(* statement whose Result is the receiver, Local(i) an argument that is     *)
(* what statement i gave.  results keeps what each statement observed.      *)
(***************************************************************************)
Local(i) == [t |-> "local", s |-> "", n |-> i]

Stmt(op, recv, fn, fn2, arg) ==
    [op |-> op, recv |-> recv, fn |-> fn, fn2 |-> fn2, arg |-> arg]

Make(op, arg) == Stmt(op, 0, NoFn, NoFn, arg)

ArgValue(results, arg) == IF arg.t = "local" THEN results[arg.n].ret ELSE arg

\* what a statement observed of the call it made on heap h
Observed(h, self, e) ==
    [outcome |-> e.outcome, ret |-> e.ret, thrown |-> e.thrown, calls |-> e.calls,
     self |-> self, recv |-> IF self = 0 THEN NoObj ELSE h[self], pre |-> Len(h)]

\* xk = Ok(arg) or xk = Err(arg)
Run_make ==
    /\ run.pc \in DOMAIN run.script
    /\ run.script[run.pc].op \in {"Ok", "Err"}
    /\ LET s == run.script[run.pc]
           value == ArgValue(run.results, s.arg)
           e == IF s.op = "Ok" THEN Ok(heap, value) ELSE Err(heap, value)
       IN  /\ heap' = e.heap
           /\ run' = [run EXCEPT !.pc = @ + 1,
                                 !.results = Append(@, Observed(heap, 0, e))]
    /\ UNCHANGED <<last, pending>>

\* xk = xi.op(...); it runs when statement i gave a Result
Run_call ==
    /\ run.pc \in DOMAIN run.script
    /\ run.script[run.pc].op \notin {"Ok", "Err"}
    /\ run.results[run.script[run.pc].recv].outcome = "return"
    /\ IsRef(run.results[run.script[run.pc].recv].ret)
    /\ LET s == run.script[run.pc]
           self == run.results[s.recv].ret.n
           e == Result_call(heap, s.op, self, s.fn, s.fn2, ArgValue(run.results, s.arg))
       IN  /\ heap' = e.heap
           /\ run' = [run EXCEPT !.pc = @ + 1,
                                 !.results = Append(@, Observed(heap, self, e))]
    /\ UNCHANGED <<last, pending>>

NextRun ==
    \/ Run_make
    \/ Run_call

\* pure functions from a value to a value
PureFns == {Fn("id"), Fn("double"), Fn("label")}

\* payloads of the programs
RunValues == {Num(123), Num(0), Str("boom"), Null}

\* x1 = Ok(v); x2 = x1.map(f); x3 = x2.map(g); x4 = x1.map(x => g(f(x)))
ComposeScripts ==
    {<<Make("Ok", v),
       Stmt("map", 1, f, NoFn, Undefined),
       Stmt("map", 2, g, NoFn, Undefined),
       Stmt("map", 1, Compose(g, f), NoFn, Undefined)>> :
          v \in RunValues, f \in PureFns, g \in PureFns}

RunOf(law, scripts) ==
    {[law |-> law, script |-> s, pc |-> 1, results |-> <<>>] : s \in scripts}

InitCompose ==
    /\ heap = <<>>
    /\ last = Idle
    /\ pending = NoPending
    /\ run \in RunOf("compose", ComposeScripts)

SpecCompose == InitCompose /\ [][NextRun]_vars

\* The number of steps of a chain r.step1(...).step2(...)...
MaxChain == 3

\* functions returning a Result, and one that throws
ChainOps == {Fn("checkPositive"), Fn("fail"), Fn("throwX")}

\* the Results a chain starts from
ChainStarts ==
    {Make("Ok", Num(123)), Make("Ok", Num(0)), Make("Err", Str("boom")),
     Make("Err", Num(123))}

\* x1 = Err("other"); x2 = Ok(7): the operands of and / or
ChainOperands == <<Make("Err", Str("other")), Make("Ok", Num(7))>>

\* the steps of a success-side chain
SuccessSteps ==
    {Stmt("map", 0, f, NoFn, Undefined) : f \in Mappers}
        \cup {Stmt("andThen", 0, op, NoFn, Undefined) : op \in ChainOps}
        \cup {Stmt("and", 0, NoFn, NoFn, Local(i)) : i \in DOMAIN ChainOperands}

\* the steps of a failure-side chain
FailureSteps ==
    {Stmt("mapErr", 0, f, NoFn, Undefined) : f \in Mappers}
        \cup {Stmt("orElse", 0, op, NoFn, Undefined) : op \in ChainOps}
        \cup {Stmt("or", 0, NoFn, NoFn, Local(i)) : i \in DOMAIN ChainOperands}

\* the first statement of a chain: the start, after the operands
ChainBase == Len(ChainOperands) + 1

\* x3 = start; x4 = x3.step1(...); x5 = x4.step2(...); ...
ChainScripts(steps) ==
    {ChainOperands \o <<start>>
        \o [i \in 1..MaxChain |-> [chain[i] EXCEPT !.recv = ChainBase + i - 1]] :
            start \in ChainStarts, chain \in [1..MaxChain -> steps]}

InitSuccessChain ==
    /\ heap = <<>>
    /\ last = Idle
    /\ pending = NoPending
    /\ run \in RunOf("successChain", ChainScripts(SuccessSteps))

SpecSuccessChain == InitSuccessChain /\ [][NextRun]_vars

InitFailureChain ==
    /\ heap = <<>>
    /\ last = Idle
    /\ pending = NoPending
    /\ run \in RunOf("failureChain", ChainScripts(FailureSteps))

SpecFailureChain == InitFailureChain /\ [][NextRun]_vars

\* The number of operations applied to each of two like Results.
MaxTwinOps == 2

\* the operations applied, with their arguments
TwinOps ==
    {Stmt("isOk", 0, NoFn, NoFn, Undefined),
     Stmt("isErr", 0, NoFn, NoFn, Undefined),
     Stmt("map", 0, Fn("double"), NoFn, Undefined),
     Stmt("mapErr", 0, Fn("double"), NoFn, Undefined),
     Stmt("unwrap", 0, NoFn, NoFn, Undefined),
     Stmt("unwrapErr", 0, NoFn, NoFn, Undefined),
     Stmt("unwrapOr", 0, NoFn, NoFn, Num(0)),
     Stmt("unwrapOrElse", 0, Fn("double"), NoFn, Undefined),
     Stmt("andThen", 0, Fn("checkPositive"), NoFn, Undefined),
     Stmt("orElse", 0, Fn("checkPositive"), NoFn, Undefined),
     Stmt("match", 0, Fn("id"), Fn("double"), Undefined),
     Stmt("and", 0, NoFn, NoFn, Local(2)),
     Stmt("or", 0, NoFn, NoFn, Local(1)),
     Stmt("mapOr", 0, Fn("double"), NoFn, Num(0)),
     Stmt("mapOrElse", 0, Fn("id"), Fn("double"), Undefined)}

\* the two like Results: the same factory called twice with the same payload
TwinMakes ==
    {Make(op, p) : op \in {"Ok", "Err"},
                   p \in {Num(123), Local(1)}}

\* statement number of the k-th operation on the first (side 1) and on the
\* second (side 2) of the two; side 1 of k = 0 is the first Result itself
TwinAt(k, side) == Len(ChainOperands) + 2 * k + side

\* x1, x2 = the operands; x3 = make; x4 = make; then each operation on the one
\* and on the other: on x3 and x4 every time ("same"), or on what the
\* operation before gave ("chained")
TwinScripts ==
    {ChainOperands \o <<make, make>>
        \o [i \in 1..(2 * MaxTwinOps) |->
               LET k == (i + 1) \div 2
                   side == 2 - (i % 2)
               IN  [ops[k] EXCEPT !.recv = IF form = "same" THEN TwinAt(0, side)
                                           ELSE TwinAt(k - 1, side)]] :
            make \in TwinMakes, ops \in [1..MaxTwinOps -> TwinOps],
            form \in {"same", "chained"}}

InitTwin ==
    /\ heap = <<>>
    /\ last = Idle
    /\ pending = NoPending
    /\ run \in RunOf("twin", TwinScripts)

SpecTwin == InitTwin /\ [][NextRun]_vars

(***************************************************************************)
(* Several callers holding the same Result.  Each has one call to make on  *)
(* it; a call runs to its end once begun (the methods are synchronous), and *)
(* the callers come to run in any order.                                   *)
(***************************************************************************)
\* The number of callers sharing a Result.
MaxCallers == 2

\* the calls the callers make on the shared Result x3; the last hands the
\* shared Result itself back from inside a callback
SharedOps ==
    TwinOps \cup {Stmt("map", 0, Fn("throwX"), NoFn, Undefined),
                  Stmt("andThen", 0, FnRet(ChainBase), NoFn, Undefined)}

\* x1, x2 = the operands; x3 = the shared Result; then one call per caller
InitShared ==
    /\ heap = <<>>
    /\ last = Idle
    /\ pending = NoPending
    /\ run \in {[law |-> "shared", script |-> ChainOperands \o <<make>>, pc |-> 1,
                  results |-> <<>>,
                  callers |-> [c \in 1..MaxCallers |-> [ops[c] EXCEPT !.recv = ChainBase]],
                  done |-> {}, obs |-> [c \in 1..MaxCallers |-> Observed(<<>>, 0, Idle)],
                  heap0 |-> <<>>] :
                     make \in TwinMakes, ops \in [1..MaxCallers -> SharedOps]}

\* caller c makes its call, whichever callers have made theirs
Caller_call ==
    /\ run.law = "shared"
    /\ run.pc > Len(run.script)
    /\ \E c \in DOMAIN run.callers \ run.done :
           LET s == run.callers[c]
               self == run.results[s.recv].ret.n
               e == Result_call(heap, s.op, self, s.fn, s.fn2,
                                ArgValue(run.results, s.arg))
           IN  /\ heap' = e.heap
               /\ run' = [run EXCEPT !.done = @ \cup {c},
                                     !.obs[c] = Observed(heap, self, e),
                                     !.heap0 = IF run.done = {} THEN heap ELSE @]
    /\ UNCHANGED <<last, pending>>

NextShared ==
    \/ Run_make
    \/ Caller_call

SpecShared == InitShared /\ [][NextShared]_vars

\* pure functions from a value to a Result: two that construct one, two that
\* hand back one that exists (the operands x1 = Err("other"), x2 = Ok(7))
ResultFns ==
    {Fn("checkPositive"), Fn("fail")} \cup {FnRet(i) : i \in DOMAIN ChainOperands}

\* x3 = Ok(v); x4 = x3.map(f); x5 = x4.isOk(); x6 = x3.andThen(f);
\* x7 = Ok(x1), an Ok of an Err; x8 = x7.isOk();
\* x9 = Err(x2), an Err of an Ok; x10 = x9.isErr()
NestScripts ==
    {ChainOperands \o
     <<Make("Ok", v),
       Stmt("map", 3, f, NoFn, Undefined),
       Stmt("isOk", 4, NoFn, NoFn, Undefined),
       Stmt("andThen", 3, f, NoFn, Undefined),
       Make("Ok", Local(1)),
       Stmt("isOk", 7, NoFn, NoFn, Undefined),
       Make("Err", Local(2)),
       Stmt("isErr", 9, NoFn, NoFn, Undefined)>> :
          v \in RunValues, f \in ResultFns}

InitNest ==
    /\ heap = <<>>
    /\ last = Idle
    /\ pending = NoPending
    /\ run \in RunOf("nest", NestScripts)

SpecNest == InitNest /\ [][NextRun]_vars

\* x3 = r; x4 = x3.andThen(f); x5 = x4.andThen(g);
\* x6 = x3.andThen(x => f(x).andThen(g))
AssocScripts ==
    {ChainOperands \o
     <<start,
       Stmt("andThen", 3, f, NoFn, Undefined),
       Stmt("andThen", 4, g, NoFn, Undefined),
       Stmt("andThen", 3, ThenCompose(f, g), NoFn, Undefined)>> :
          start \in ChainStarts, f \in ResultFns, g \in ResultFns}

InitAssoc ==
    /\ heap = <<>>
    /\ last = Idle
    /\ pending = NoPending
    /\ run \in RunOf("assoc", AssocScripts)

SpecAssoc == InitAssoc /\ [][NextRun]_vars

(***************************************************************************)
(* The claims.                                                             *)
(***************************************************************************)
\* the last call was `op` on a receiver of variant `tag`
CallOn(op, tag) == last.op = op /\ last.recv._tag = tag

\* the object a returned reference points to
Returned == heap[last.ret.n]

\* the call returned a Result object that it, or a callback it ran, constructed
ReturnedNew ==
    /\ last.outcome = "return"
    /\ IsRef(last.ret)
    /\ last.ret.n \in DOMAIN heap
    /\ last.ret.n > last.pre

\* the call returned its own receiver
ReturnedSelf == last.outcome = "return" /\ last.ret = Ref(last.self)

\* the call invoked exactly one callback, once: fn, from parameter slot, with x
InvokedOnce(slot, fn, x) ==
    /\ Len(last.calls) = 1
    /\ last.calls[1].slot = slot
    /\ last.calls[1].fn = fn
    /\ last.calls[1].arg = x

\* what a value-returning function of the callers' gives for x
MapperValue(fn, x) == IF fn = Fn("id") THEN x ELSE Double(x)

\* C1: every Result in existence, however it was produced, answers isOk() and
\* isErr() with opposite booleans; a value built by Ok(v) answers true/false,
\* one built by Err(e) false/true, whatever the payload.
C1_ExactlyOneVariant ==
    /\ \A i \in DOMAIN heap :
          LET ok == Result_isOk(heap, i)
              er == Result_isErr(heap, i)
          IN  /\ ok.outcome = "return" /\ er.outcome = "return"
              /\ {ok.ret, er.ret} = {Bool(TRUE), Bool(FALSE)}
    /\ last.op = "Ok" =>
          /\ ReturnedNew
          /\ Result_isOk(heap, last.ret.n).ret = Bool(TRUE)
          /\ Result_isErr(heap, last.ret.n).ret = Bool(FALSE)
    /\ last.op = "Err" =>
          /\ ReturnedNew
          /\ Result_isOk(heap, last.ret.n).ret = Bool(FALSE)
          /\ Result_isErr(heap, last.ret.n).ret = Bool(TRUE)
    /\ (last.outcome = "return" /\ IsRef(last.ret)
          /\ last.op \in {"map", "mapErr", "andThen", "orElse", "and", "or"}) =>
          Result_isOk(heap, last.ret.n).ret # Result_isErr(heap, last.ret.n).ret

\* C1 witness: a combinator has just returned an Err it constructed, next to an Ok.
C1_Witness ==
    /\ CallOn("mapErr", "Err")
    /\ ReturnedNew
    /\ Returned._tag = "Err"
    /\ \E i \in DOMAIN heap : heap[i]._tag = "Ok"

\* C2: no step, whether the call returns or throws, changes an object that
\* already exists: every Result keeps the tag and payload it was built with.
C2_NoInPlaceChange ==
    [][\A i \in DOMAIN heap : i \in DOMAIN heap' /\ heap'[i] = heap[i]]_vars

\* C2 witness: a call that threw, on a receiver that is as it was.
C2_Witness ==
    /\ last.outcome = "throw"
    /\ last.self \in DOMAIN heap
    /\ heap[last.self] = last.recv
    /\ Len(heap) = MaxObjs

\* C3: Ok(v).map(f) invokes f exactly once, with v, and when f returns the
\* result is a newly constructed Ok, not the receiver, whose payload is f(v).
C3_OkMap ==
    CallOn("map", "Ok") =>
        /\ InvokedOnce("mapper", last.fn, last.recv.value)
        /\ last.fn # Fn("throwX") =>
              /\ ReturnedNew
              /\ last.ret.n # last.self
              /\ ~last.calls[1].threw
              /\ Returned = OkImpl(last.calls[1].ret)
              /\ Returned = OkImpl(MapperValue(last.fn, last.recv.value))

\* C3 witness: Ok(123).map(x => x * 2) has returned a new Ok(246).
C3_Witness ==
    /\ CallOn("map", "Ok")
    /\ last.recv.value = Num(123)
    /\ last.fn = Fn("double")
    /\ ReturnedNew
    /\ Returned = OkImpl(Num(246))

\* C4: Err(e).map(f) returns normally an Err with payload e, constructs nothing
\* and never invokes f, whatever f is.
C4_ErrMapShortCircuits ==
    CallOn("map", "Err") =>
        /\ last.outcome = "return"
        /\ IsRef(last.ret)
        /\ Returned = ErrImpl(last.recv.error)
        /\ last.calls = <<>>

\* C4 witness: Err("boom").map(f) with an f that would have thrown.
C4_Witness ==
    /\ CallOn("map", "Err")
    /\ last.recv.error = Str("boom")
    /\ last.fn = Fn("throwX")
    /\ last.outcome = "return"

\* C5: Err(e).mapErr(f) invokes f exactly once, with e, and returns an Err whose
\* payload is f(e); Ok(v).mapErr(f) returns its receiver, still Ok(v), and never
\* invokes f.
C5_MapErr ==
    /\ CallOn("mapErr", "Err") =>
          /\ InvokedOnce("mapper", last.fn, last.recv.error)
          /\ last.fn # Fn("throwX") =>
                /\ ReturnedNew
                /\ Returned = ErrImpl(last.calls[1].ret)
                /\ Returned = ErrImpl(MapperValue(last.fn, last.recv.error))
    /\ CallOn("mapErr", "Ok") =>
          /\ ReturnedSelf
          /\ Returned = last.recv
          /\ last.calls = <<>>

\* C5 witness: Err(123).mapErr(x => x * 2) has returned Err(246).
C5_Witness ==
    /\ CallOn("mapErr", "Err")
    /\ last.recv.error = Num(123)
    /\ last.fn = Fn("double")
    /\ ReturnedNew
    /\ Returned = ErrImpl(Num(246))

\* what a Result-returning function of the callers' gives for x: the object it
\* captured, or, for checkPositive, a newly constructed Ok(x) or Err
OpReturned(fn, x) ==
    IF fn.name = "ret" THEN last.ret = Ref(fn.k) /\ Len(heap) = last.pre
    ELSE /\ ReturnedNew
         /\ Len(heap) = last.pre + 1
         /\ Returned = IF IsPositive(x) THEN OkImpl(x)
                       ELSE ErrImpl(Str("Number is not positive"))

\* C6: Ok(v).andThen(op) invokes op exactly once, with v, and returns the very
\* Result op returned, Ok or Err, constructing nothing itself; Err(e).andThen(op)
\* returns the original Err(e) and never invokes op.
C6_AndThen ==
    /\ CallOn("andThen", "Ok") =>
          /\ InvokedOnce("op", last.fn, last.recv.value)
          /\ last.fn # Fn("throwX") =>
                /\ last.outcome = "return"
                /\ IsRef(last.ret)
                /\ last.ret = last.calls[1].ret
                /\ OpReturned(last.fn, last.recv.value)
    /\ CallOn("andThen", "Err") =>
          /\ ReturnedSelf
          /\ Returned = last.recv
          /\ last.calls = <<>>

\* C6 witness: Ok("boom").andThen(checkPositive) has returned the Err that
\* checkPositive constructed.
C6_Witness ==
    /\ CallOn("andThen", "Ok")
    /\ last.recv.value = Str("boom")
    /\ last.fn = Fn("checkPositive")
    /\ ReturnedNew
    /\ Returned._tag = "Err"

\* C7: Err(e).orElse(op) invokes op exactly once, with e, and returns the very
\* Result op returned, Ok or Err, constructing nothing itself; Ok(v).orElse(op)
\* returns the original Ok(v) and never invokes op.
C7_OrElse ==
    /\ CallOn("orElse", "Err") =>
          /\ InvokedOnce("op", last.fn, last.recv.error)
          /\ last.fn # Fn("throwX") =>
                /\ last.outcome = "return"
                /\ IsRef(last.ret)
                /\ last.ret = last.calls[1].ret
                /\ OpReturned(last.fn, last.recv.error)
    /\ CallOn("orElse", "Ok") =>
          /\ ReturnedSelf
          /\ Returned = last.recv
          /\ last.calls = <<>>

\* C7 witness: Err(123).orElse(checkPositive) has recovered to a new Ok(123).
C7_Witness ==
    /\ CallOn("orElse", "Err")
    /\ last.recv.error = Num(123)
    /\ last.fn = Fn("checkPositive")
    /\ ReturnedNew
    /\ Returned = OkImpl(Num(123))

\* C8: Ok(v).unwrap() returns v and Err(e).unwrapErr() returns e; neither
\* throws, and the result is the same with no message, a message, or "".
C8_UnwrapPresent ==
    /\ CallOn("unwrap", "Ok") =>
          /\ last.outcome = "return"
          /\ last.ret = last.recv.value
          /\ last.thrown = NoThrow
    /\ CallOn("unwrapErr", "Err") =>
          /\ last.outcome = "return"
          /\ last.ret = last.recv.error
          /\ last.thrown = NoThrow

\* C8 witness: Err("boom").unwrapErr("Custom message") has returned "boom".
C8_Witness ==
    /\ CallOn("unwrapErr", "Err")
    /\ last.arg = Str("Custom message")
    /\ last.outcome = "return"
    /\ last.ret = Str("boom")

\* C9: Err(e).unwrap() and Ok(v).unwrapErr() never return: each throws an
\* UnwrapError, an Error subclass named "UnwrapError", whose causeValue is the
\* receiver's payload, with or without a message.
C9_UnwrapAbsent ==
    /\ CallOn("unwrap", "Err") =>
          /\ last.outcome = "throw"
          /\ last.thrown.cls = "UnwrapError"
          /\ last.thrown.extends = "Error"
          /\ last.thrown.name = "UnwrapError"
          /\ last.thrown.causeValue = last.recv.error
    /\ CallOn("unwrapErr", "Ok") =>
          /\ last.outcome = "throw"
          /\ last.thrown.cls = "UnwrapError"
          /\ last.thrown.extends = "Error"
          /\ last.thrown.name = "UnwrapError"
          /\ last.thrown.causeValue = last.recv.value

\* C9 witness: Err("boom").unwrap("Custom message") has thrown.
C9_Witness ==
    /\ CallOn("unwrap", "Err")
    /\ last.recv.error = Str("boom")
    /\ last.arg = Str("Custom message")
    /\ last.outcome = "throw"
    /\ last.thrown.causeValue = Str("boom")

\* the text a payload is expected to have in a default message: a string in
\* double quotes, a number in its decimal form
Rendered(value) ==
    CASE value.t = "string" -> "\"" \o value.s \o "\""
      [] value.t = "number" -> IF value = NaN THEN "NaN" ELSE ToString(value.n)
      [] OTHER -> TemplateText(formatValue(heap, value))

\* C10: with no message, Err(e).unwrap() throws with the message
\* 'Called unwrap on an Err value: ' followed by the formatted e, and
\* Ok(v).unwrapErr() with 'Called unwrapErr on an Ok value: ' followed by the
\* formatted v; Err('boom') gives '... "boom"' and Ok(123) gives '... 123'.
C10_DefaultMessage ==
    /\ (CallOn("unwrap", "Err") /\ last.arg = Undefined) =>
          /\ last.thrown.message =
                 "Called unwrap on an Err value: " \o Rendered(last.recv.error)
          /\ last.recv.error = Str("boom") =>
                 last.thrown.message = "Called unwrap on an Err value: \"boom\""
          /\ last.recv.error = Num(123) =>
                 last.thrown.message = "Called unwrap on an Err value: 123"
    /\ (CallOn("unwrapErr", "Ok") /\ last.arg = Undefined) =>
          /\ last.thrown.message =
                 "Called unwrapErr on an Ok value: " \o Rendered(last.recv.value)
          /\ last.recv.value = Num(123) =>
                 last.thrown.message = "Called unwrapErr on an Ok value: 123"
          /\ last.recv.value = Str("boom") =>
                 last.thrown.message = "Called unwrapErr on an Ok value: \"boom\""

\* C10 witness: Err("boom").unwrap() has thrown with the default message.
C10_Witness ==
    /\ CallOn("unwrap", "Err")
    /\ last.arg = Undefined
    /\ last.outcome = "throw"
    /\ last.thrown.message = "Called unwrap on an Err value: \"boom\""

\* C11: when a message is supplied, Err(e).unwrap(msg) and Ok(v).unwrapErr(msg)
\* throw with exactly that message, nothing added, also when msg is "".
C11_CustomMessage ==
    (/\ CallOn("unwrap", "Err") \/ CallOn("unwrapErr", "Ok")
     /\ last.arg.t = "string") =>
        /\ last.outcome = "throw"
        /\ last.thrown.message = last.arg.s

\* C11 witness: Err("boom").unwrap("") has thrown with the empty message.
C11_Witness ==
    /\ CallOn("unwrap", "Err")
    /\ last.recv.error = Str("boom")
    /\ last.arg = Str("")
    /\ last.outcome = "throw"
    /\ last.thrown.message = ""

\* the call did what its one callback did: returned its value, or threw
SameAsCallback ==
    IF last.calls[1].threw
    THEN last.outcome = "throw" /\ last.thrown = ErrorX
    ELSE /\ last.outcome = "return"
         /\ last.ret = last.calls[1].ret
         /\ last.ret = MapperValue(last.calls[1].fn, last.calls[1].arg)

\* C12: match invokes exactly one handler, once: on Ok the Ok handler with v, on
\* Err the Err handler with e; the other handler is not invoked, and the call
\* returns what the invoked handler returned.
C12_Match ==
    /\ CallOn("match", "Ok") =>
          /\ InvokedOnce("matcher.Ok", last.fn, last.recv.value)
          /\ SameAsCallback
    /\ CallOn("match", "Err") =>
          /\ InvokedOnce("matcher.Err", last.fn2, last.recv.error)
          /\ SameAsCallback

\* C12 witness: Err(123).match({Ok: id, Err: x => x * 2}) has returned 246.
C12_Witness ==
    /\ CallOn("match", "Err")
    /\ last.recv.error = Num(123)
    /\ last.fn = Fn("id") /\ last.fn2 = Fn("double")
    /\ last.ret = Num(246)

\* the call constructed nothing and invoked nothing
NothingDone == Len(heap) = last.pre /\ last.calls = <<>>

\* C13: Ok(v).and(other) is other and Err(e).and(other) the receiver;
\* Ok(v).or(other) is the receiver and Err(e).or(other) is other; the operand
\* chosen is returned as it is.  So of two Errs, or gives the second, and the first.
C13_AndOr ==
    /\ CallOn("and", "Ok") => last.outcome = "return" /\ last.ret = last.arg /\ NothingDone
    /\ CallOn("and", "Err") => ReturnedSelf /\ Returned = last.recv /\ NothingDone
    /\ CallOn("or", "Ok") => ReturnedSelf /\ Returned = last.recv /\ NothingDone
    /\ CallOn("or", "Err") => last.outcome = "return" /\ last.ret = last.arg /\ NothingDone

\* C13 witness: of two distinct Errs, or has returned the second.
C13_Witness ==
    /\ CallOn("or", "Err")
    /\ last.arg # Ref(last.self)
    /\ last.ret = last.arg
    /\ Returned._tag = "Err"
    /\ Returned # last.recv

\* C14: Ok(v).unwrapOr(d) returns v, whatever d is, and Err(e).unwrapOr(d)
\* returns d; neither throws.
C14_UnwrapOr ==
    /\ CallOn("unwrapOr", "Ok") =>
          last.outcome = "return" /\ last.ret = last.recv.value /\ NothingDone
    /\ CallOn("unwrapOr", "Err") =>
          last.outcome = "return" /\ last.ret = last.arg /\ NothingDone

\* C14 witness: Err("boom").unwrapOr(0) has returned 0.
C14_Witness ==
    /\ CallOn("unwrapOr", "Err")
    /\ last.recv.error = Str("boom")
    /\ last.arg = Num(0)
    /\ last.ret = Num(0)

\* C15: Ok(v).unwrapOrElse(op) returns v and never invokes op;
\* Err(e).unwrapOrElse(op) invokes op exactly once, with e, and returns op(e).
C15_UnwrapOrElse ==
    /\ CallOn("unwrapOrElse", "Ok") =>
          last.outcome = "return" /\ last.ret = last.recv.value /\ NothingDone
    /\ CallOn("unwrapOrElse", "Err") =>
          /\ InvokedOnce("op", last.fn, last.recv.error)
          /\ SameAsCallback

\* C15 witness: Err(123).unwrapOrElse(x => x * 2) has returned 246.
C15_Witness ==
    /\ CallOn("unwrapOrElse", "Err")
    /\ last.recv.error = Num(123)
    /\ last.fn = Fn("double")
    /\ last.ret = Num(246)

\* C16: Ok(v).mapOr(d, f) invokes f once with v and returns f(v), not d;
\* Err(e).mapOr(d, f) returns d as it is and never invokes f.
C16_MapOr ==
    /\ CallOn("mapOr", "Ok") =>
          /\ InvokedOnce("mapper", last.fn, last.recv.value)
          /\ SameAsCallback
    /\ CallOn("mapOr", "Err") =>
          last.outcome = "return" /\ last.ret = last.arg /\ NothingDone

\* C16 witness: Ok(123).mapOr(0, x => x * 2) has returned 246.
C16_Witness ==
    /\ CallOn("mapOr", "Ok")
    /\ last.recv.value = Num(123)
    /\ last.arg = Num(0)
    /\ last.fn = Fn("double")
    /\ last.ret = Num(246)

\* C17: Ok(v).mapOrElse(g, f) invokes f alone, with v, and returns f(v);
\* Err(e).mapOrElse(g, f) invokes g alone, with e, and returns g(e).
\* (last.fn is the mapper f, last.fn2 the fallback g.)
C17_MapOrElse ==
    /\ CallOn("mapOrElse", "Ok") =>
          /\ InvokedOnce("mapper", last.fn, last.recv.value)
          /\ SameAsCallback
    /\ CallOn("mapOrElse", "Err") =>
          /\ InvokedOnce("defaultFn", last.fn2, last.recv.error)
          /\ SameAsCallback

\* C17 witness: Err(123).mapOrElse(x => x * 2, id) has returned 246.
C17_Witness ==
    /\ CallOn("mapOrElse", "Err")
    /\ last.recv.error = Num(123)
    /\ last.fn = Fn("id") /\ last.fn2 = Fn("double")
    /\ last.ret = Num(246)

\* some callback the call invoked threw
CallbackThrew == \E i \in DOMAIN last.calls : last.calls[i].threw

\* C18: a call throws only as unwrap() on an Err or unwrapErr() on an Ok, and
\* then an UnwrapError, unless a function of the caller's threw inside it;
\* every other operation, the factories included, returns on both variants.
C18_OnlyMisuseThrows ==
    /\ (last.outcome = "throw" /\ ~CallbackThrew) =>
          /\ CallOn("unwrap", "Err") \/ CallOn("unwrapErr", "Ok")
          /\ last.thrown.cls = "UnwrapError"
    /\ (/\ last.op \in {"isOk", "isErr", "map", "mapErr", "unwrapOr", "unwrapOrElse",
                        "andThen", "orElse", "match", "and", "or", "mapOr",
                        "mapOrElse", "Ok", "Err"}
        /\ ~CallbackThrew) => last.outcome = "return"

\* C18 witness: a combinator that was handed a throwing function, did not invoke
\* it, and returned.
C18_Witness ==
    /\ CallOn("orElse", "Ok")
    /\ last.fn = Fn("throwX")
    /\ last.outcome = "return"
    /\ ~CallbackThrew

\* what wrapping the computation fn must give: Err of what it threw or rejected
\* with, Ok of what it returned or fulfilled with
Wrapped(fn) ==
    IF fn.name \in {"throwing", "rejecting"} THEN ErrImpl(fn.v) ELSE OkImpl(fn.v)

\* C19: catches(fn) and catchesAsync(fn) never re-raise: catches returns, and
\* the promise of catchesAsync resolves with, a new Ok(v) when fn returned (or
\* fulfilled with) v, and a new Err(X) holding the very object X that fn threw
\* (or rejected with).
C19_EscapeHatch ==
    /\ last.op = "catches" =>
          /\ ReturnedNew
          /\ heap[last.ret.n] = Wrapped(last.fn)
    /\ last.op = "catchesAsync" =>
          last.outcome = "return" /\ last.ret = PromiseValue
    /\ pending.stage \in {"none", "awaiting", "resolved"}
    /\ pending.stage = "resolved" =>
          /\ IsRef(pending.result)
          /\ heap[pending.result.n] = Wrapped(pending.fn)
    /\ last.op = "await" =>
          /\ last.outcome = "return"
          /\ heap[last.ret.n] = Wrapped(last.fn)

\* C19 witness: the caller has awaited catchesAsync of a computation that
\* rejected with an exception, and holds Err of that exception.
C19_Witness ==
    /\ last.op = "await"
    /\ last.fn = Rejecting(Exception(2))
    /\ heap[last.ret.n] = ErrImpl(Exception(2))

\* C20: formatValue returns a string for every value and never throws: a
\* string comes back in double quotes, a number, boolean, null or undefined as
\* String(value), anything else as its pretty-printed serialization, or as a
\* type tag where it cannot be serialized.  (Violated: a function and a symbol
\* come back as undefined.)
C20_FormatTotal ==
    last.op = "formatValue" =>
        /\ last.outcome = "return"
        /\ last.ret.t = "string"
        /\ last.arg.t = "string" => last.ret.s = "\"" \o last.arg.s \o "\""
        /\ last.arg.t \in {"number", "boolean", "null", "undefined"} =>
              last.ret.s = String(last.arg)
        /\ (last.arg.t = "bigint" \/ last.arg = Cyclic) =>
              last.ret.s \in {"[object BigInt]", "[object Object]"}

\* C21: mapping the identity function over the side that holds the payload
\* gives a Result with the same tag and payload: Ok(v).map(id) is an Ok of v,
\* Err(e).mapErr(id) an Err of e.
C21_IdentityLaws ==
    /\ (CallOn("map", "Ok") /\ last.fn = Fn("id")) =>
          /\ ReturnedNew
          /\ Returned = OkImpl(last.recv.value)
    /\ (CallOn("mapErr", "Err") /\ last.fn = Fn("id")) =>
          /\ ReturnedNew
          /\ Returned = ErrImpl(last.recv.error)

\* C21 witness: Err("boom").mapErr(id) has returned an Err of "boom".
C21_Witness ==
    /\ CallOn("mapErr", "Err")
    /\ last.fn = Fn("id")
    /\ last.recv.error = Str("boom")
    /\ last.outcome = "return"
    /\ Returned = ErrImpl(Str("boom"))

\* C25: the pass-through combinators hand back an object that exists already:
\* Ok.mapErr, Ok.orElse, Ok.or, Err.map, Err.andThen and Err.and return the
\* receiver itself, Ok.and and Err.or return the argument itself; no object is
\* constructed and the receiver keeps its tag and payload.
C25_PassThrough ==
    /\ (\/ last.op \in {"mapErr", "orElse", "or"} /\ last.recv._tag = "Ok"
        \/ last.op \in {"map", "andThen", "and"} /\ last.recv._tag = "Err") =>
          /\ ReturnedSelf
          /\ Len(heap) = last.pre
          /\ heap[last.self] = last.recv
    /\ (CallOn("and", "Ok") \/ CallOn("or", "Err")) =>
          /\ last.outcome = "return"
          /\ last.ret = last.arg
          /\ Len(heap) = last.pre

\* C25 witness: Ok(123).mapErr(f) has returned the receiver.
C25_Witness ==
    /\ CallOn("mapErr", "Ok")
    /\ last.recv.value = Num(123)
    /\ last.fn = Fn("double")
    /\ last.ret = Ref(last.self)

\* the (operation, variant) pairs in which the method invokes a function it was given
Invoking ==
    \/ last.op \in {"map", "andThen", "mapOr"} /\ last.recv._tag = "Ok"
    \/ last.op \in {"mapErr", "orElse", "unwrapOrElse"} /\ last.recv._tag = "Err"
    \/ last.op \in {"match", "mapOrElse"} /\ last.recv._tag \in {"Ok", "Err"}

\* the function the method invokes on this variant, of the functions it was given
Chosen ==
    IF last.op = "match" THEN (IF last.recv._tag = "Ok" THEN last.fn ELSE last.fn2)
    ELSE IF last.op = "mapOrElse"
    THEN (IF last.recv._tag = "Ok" THEN last.fn ELSE last.fn2)
    ELSE last.fn

\* C28: when a combinator invokes a function that throws X, the call throws
\* that X, not an UnwrapError and not an Err, constructs nothing, and leaves
\* the receiver as it was; a combinator that was handed a throwing function and
\* does not invoke it returns.
C28_CallbackThrowPropagates ==
    /\ (Invoking /\ Chosen = Fn("throwX")) =>
          /\ last.outcome = "throw"
          /\ last.thrown = ErrorX
          /\ Len(last.calls) = 1 /\ last.calls[1].threw
          /\ Len(heap) = last.pre
          /\ heap[last.self] = last.recv
    /\ (/\ last.op \in {"map", "mapErr", "andThen", "orElse", "unwrapOrElse", "match",
                        "mapOr", "mapOrElse"}
        /\ Fn("throwX") \in {last.fn, last.fn2}
        /\ ~(Invoking /\ Chosen = Fn("throwX"))) =>
          /\ last.outcome = "return"
          /\ \A i \in DOMAIN last.calls : last.calls[i].fn # Fn("throwX")

\* C28 witness: Ok(123).match with a throwing Ok handler has thrown X.
C28_Witness ==
    /\ CallOn("match", "Ok")
    /\ last.fn = Fn("throwX")
    /\ last.outcome = "throw"
    /\ last.thrown = ErrorX

\* the program has run to its end
RunDone(law) == run.law = law /\ run.pc > Len(run.script)

\* statements i and j each gave a Result, and the two have the same tag and payload
SameTagAndPayload(i, j) ==
    /\ run.results[i].outcome = "return" /\ IsRef(run.results[i].ret)
    /\ run.results[j].outcome = "return" /\ IsRef(run.results[j].ret)
    /\ heap[run.results[i].ret.n] = heap[run.results[j].ret.n]

\* C22: Ok(v).map(f).map(g) has the same tag and payload as
\* Ok(v).map(x => g(f(x))), for pure f and g.
C22_Composition ==
    RunDone("compose") =>
        /\ SameTagAndPayload(3, 4)
        /\ heap[run.results[3].ret.n]._tag = "Ok"

\* C22 witness: both sides of the law have been computed for f = x * 2 and
\* g = `Value: ${x}`, which do not commute, and give Ok("Value: 246").
C22_Witness ==
    /\ RunDone("compose")
    /\ run.script[2].fn = Fn("double") /\ run.script[3].fn = Fn("label")
    /\ heap[run.results[4].ret.n] = OkImpl(Str("Value: 246"))
    /\ run.results[3].ret # run.results[4].ret

\* statement i gave a Result of variant tag
Gave(i, tag) ==
    /\ run.results[i].outcome = "return"
    /\ IsRef(run.results[i].ret)
    /\ heap[run.results[i].ret.n]._tag = tag

\* from the point i where the running value of the chain is of variant tag,
\* every later step gives that variant with the same payload and invokes nothing
Sticky(tag) ==
    \A i \in ChainBase..Len(run.results) :
        Gave(i, tag) =>
            \A j \in (i + 1)..Len(run.results) :
                /\ Gave(j, tag)
                /\ heap[run.results[j].ret.n] = heap[run.results[i].ret.n]
                /\ run.results[j].calls = <<>>

\* C23: along a chain of map, andThen and and steps, once the running value is
\* an Err(e) every later value is Err(e) and no function handed to a later map
\* or andThen is invoked.
C23_StickyFailure == run.law = "successChain" => Sticky("Err")

\* C23 witness: Ok(123).andThen(fail).map(throwing).and(Ok(7)) has run to its
\* end: the andThen step made the Err, the last step still gives it.
C23_Witness ==
    /\ RunDone("successChain")
    /\ run.script[ChainBase] = Make("Ok", Num(123))
    /\ run.script[ChainBase + 1].fn = Fn("fail")
    /\ run.script[ChainBase + 2].fn = Fn("throwX")
    /\ run.script[ChainBase + 3].arg = Local(2)
    /\ Len(run.results) = Len(run.script)
    /\ heap[run.results[Len(run.results)].ret.n] = ErrImpl(Str("Cannot divide by zero"))

\* C24: along a chain of mapErr, orElse and or steps, once the running value
\* is an Ok(v) every later value is Ok(v) and no function handed to a later
\* mapErr or orElse is invoked.
C24_StickySuccess == run.law = "failureChain" => Sticky("Ok")

\* C24 witness: Err(123).orElse(checkPositive).mapErr(throwing).or(Err("other"))
\* has run to its end: the orElse step made Ok(123), the last step still gives it.
C24_Witness ==
    /\ RunDone("failureChain")
    /\ run.script[ChainBase] = Make("Err", Num(123))
    /\ run.script[ChainBase + 1].fn = Fn("checkPositive")
    /\ run.script[ChainBase + 2].fn = Fn("throwX")
    /\ run.script[ChainBase + 3].arg = Local(1)
    /\ Len(run.results) = Len(run.script)
    /\ heap[run.results[Len(run.results)].ret.n] = OkImpl(Num(123))

\* v and w are the same value, a Result counting as the same as another of the
\* same tag whose payload is the same value
RECURSIVE SameValue(_, _)
SameValue(v, w) ==
    IF IsRef(v) /\ IsRef(w)
    THEN /\ heap[v.n]._tag = heap[w.n]._tag
         /\ SameValue(PayloadOf(heap[v.n]), PayloadOf(heap[w.n]))
    ELSE v = w

\* statements i and j observed the same: the same boolean or payload returned,
\* a Result of the same tag and payload, or an error of the same class, message
\* and causeValue thrown; and the same functions invoked with the same values
SameObservation(i, j) ==
    LET a == run.results[i]
        b == run.results[j]
    IN  /\ a.outcome = b.outcome
        /\ SameValue(a.ret, b.ret)
        /\ a.thrown.cls = b.thrown.cls
        /\ a.thrown.message = b.thrown.message
        /\ SameValue(a.thrown.causeValue, b.thrown.causeValue)
        /\ Len(a.calls) = Len(b.calls)
        /\ \A c \in DOMAIN a.calls :
              /\ a.calls[c].fn = b.calls[c].fn
              /\ SameValue(a.calls[c].arg, b.calls[c].arg)
              /\ SameValue(a.calls[c].ret, b.calls[c].ret)

\* C26: two Results made with the same tag and payload, taken through the same
\* operations with the same arguments, give the same observation at every step.
C26_NoIdentity ==
    run.law = "twin" =>
        \A k \in 0..MaxTwinOps :
            TwinAt(k, 2) <= Len(run.results) => SameObservation(TwinAt(k, 1), TwinAt(k, 2))

\* C26 witness: two Err(123), distinct objects, have each been unwrapped and
\* then mapped over the error; both threw the same message and cause.
C26_Witness ==
    /\ RunDone("twin")
    /\ run.script[TwinAt(0, 1)] = Make("Err", Num(123))
    /\ run.results[TwinAt(0, 1)].ret # run.results[TwinAt(0, 2)].ret
    /\ run.script[TwinAt(1, 1)].op = "unwrap"
    /\ run.results[TwinAt(1, 2)].outcome = "throw"
    /\ run.results[TwinAt(1, 2)].thrown.causeValue = Num(123)
    /\ run.script[TwinAt(2, 1)].op = "mapErr"
    /\ Len(run.results) = Len(run.script)

\* value v of heap h1 and value w of heap h2 are the same value, a Result
\* counting as the same as another of the same tag whose payload is the same
RECURSIVE SameAcross(_, _, _, _)
SameAcross(h1, v, h2, w) ==
    IF IsRef(v) /\ IsRef(w)
    THEN /\ h1[v.n]._tag = h2[w.n]._tag
         /\ SameAcross(h1, PayloadOf(h1[v.n]), h2, PayloadOf(h2[w.n]))
    ELSE v = w

\* what caller c's call gives when it is the only call made on the shared
\* Result: the call on the heap as it was before any caller ran
Alone(c) ==
    LET s == run.callers[c]
    IN  Result_call(run.heap0, s.op, run.results[s.recv].ret.n, s.fn, s.fn2,
                    ArgValue(run.results, s.arg))

\* C27: whatever the order in which the callers' calls on a shared Result run,
\* each caller observes what it would observe running alone, and the shared
\* Result keeps its tag and payload.
C27_RaceFree ==
    run.law = "shared" =>
        \A c \in run.done :
            /\ run.obs[c].outcome = Alone(c).outcome
            /\ SameAcross(heap, run.obs[c].ret, Alone(c).heap, Alone(c).ret)
            /\ run.obs[c].thrown.cls = Alone(c).thrown.cls
            /\ run.obs[c].thrown.message = Alone(c).thrown.message
            /\ SameAcross(heap, run.obs[c].thrown.causeValue,
                          Alone(c).heap, Alone(c).thrown.causeValue)
            /\ heap[run.results[ChainBase].ret.n] = run.heap0[run.results[ChainBase].ret.n]

\* C27 witness: on a shared Ok(123) the second caller ran first and mapped it;
\* the first caller, running after, unwrapped 123.
C27_Witness ==
    /\ run.law = "shared"
    /\ run.script[ChainBase] = Make("Ok", Num(123))
    /\ run.callers[1].op = "unwrap" /\ run.callers[2].op = "map"
    /\ 1 \in run.done /\ 2 \in run.done
    /\ run.obs[2].pre < run.obs[1].pre
    /\ run.obs[1].ret = Num(123)

\* statement i has run
Ran(i) == i <= Len(run.results)

\* C29: map wraps whatever the mapper returns, a Result included: for f
\* returning a Result r, Ok(v).map(f) is an Ok whose payload is r itself and
\* answers isOk() with true, while Ok(v).andThen(f) is r; Ok(Err(e)) is an Ok
\* and Err(Ok(v)) is an Err.
C29_MapNeverFlattens ==
    run.law = "nest" =>
        /\ Ran(4) =>
              /\ Gave(4, "Ok")
              /\ run.results[4].ret.n > run.results[4].pre
              /\ Len(run.results[4].calls) = 1
              /\ IsRef(run.results[4].calls[1].ret)
              /\ heap[run.results[4].ret.n].value = run.results[4].calls[1].ret
        /\ Ran(5) => run.results[5].ret = Bool(TRUE)
        /\ Ran(6) =>
              /\ Len(run.results[6].calls) = 1
              /\ run.results[6].outcome = "return"
              /\ run.results[6].ret = run.results[6].calls[1].ret
        /\ Ran(7) => heap[run.results[7].ret.n] = OkImpl(run.results[1].ret)
        /\ Ran(8) => run.results[8].ret = Bool(TRUE)
        /\ Ran(9) => heap[run.results[9].ret.n] = ErrImpl(run.results[2].ret)
        /\ Ran(10) => run.results[10].ret = Bool(TRUE)

\* C29 witness: the program has run to its end with an f that returns an Err:
\* Ok(123).map(f) is an Ok holding that Err, and said true to isOk().
C29_Witness ==
    /\ RunDone("nest")
    /\ run.script[3] = Make("Ok", Num(123))
    /\ run.script[4].fn = Fn("fail")
    /\ heap[heap[run.results[4].ret.n].value.n] = ErrImpl(Str("Cannot divide by zero"))
    /\ run.results[5].ret = Bool(TRUE)
    /\ heap[run.results[6].ret.n]._tag = "Err"
    /\ heap[run.results[1].ret.n]._tag = "Err"
    /\ heap[run.results[2].ret.n]._tag = "Ok"

\* how many times g ran: in r.andThen(f).andThen(g), and inside the closure of
\* r.andThen(x => f(x).andThen(g))
InvokedLeft == Len(run.results[5].calls)
InvokedRight ==
    IF run.results[6].calls = <<>> THEN 0
    ELSE Len(run.results[6].calls[1].inner) - 1

\* C30: r.andThen(f).andThen(g) has the same tag and payload as
\* r.andThen(x => f(x).andThen(g)), and in both g runs exactly when r is Ok and
\* f's result is Ok, and otherwise not at all.
C30_AndThenAssociative ==
    RunDone("assoc") =>
        /\ run.results[5].outcome = "return"
        /\ run.results[6].outcome = "return"
        /\ IsRef(run.results[5].ret) /\ IsRef(run.results[6].ret)
        /\ SameValue(run.results[5].ret, run.results[6].ret)
        /\ InvokedLeft = (IF Gave(3, "Ok") /\ Gave(4, "Ok") THEN 1 ELSE 0)
        /\ InvokedRight = InvokedLeft

\* C30 witness: both forms have run from Ok(123) with f = checkPositive, whose
\* result is Ok, and g = fail: g ran once in each and both give its Err.
C30_Witness ==
    /\ RunDone("assoc")
    /\ run.script[3] = Make("Ok", Num(123))
    /\ run.script[4].fn = Fn("checkPositive")
    /\ run.script[5].fn = Fn("fail")
    /\ InvokedLeft = 1 /\ InvokedRight = 1
    /\ heap[run.results[6].ret.n] = ErrImpl(Str("Cannot divide by zero"))
    /\ run.results[5].ret # run.results[6].ret

====
